---------------------------- MODULE Spec2Model ----------------------------
(***************************************************************************)
(* Model of the concurrent lookup aggregator (internal/aggregator) and of  *)
(* the Report it returns (internal/model/report.go).                       *)
(*                                                                         *)
(* One Lookup call is modelled as the calling goroutine (pc, loopIdx) plus *)
(* one goroutine per registered provider (taskpc).  A provider is any      *)
(* implementation of provider.Provider: its Check may return any           *)
(* (Geolocation, error) pair, may honour the context or ignore it, and may *)
(* panic.  Go values are represented as follows:                           *)
(*   error            [isNil, msg]  (msg is what err.Error() returns)      *)
(*   *Geolocation     <<>> for nil, <<g>> for a pointer to g               *)
(*   time             a bounded logical clock  now                         *)
(*   float64          an exact rational <<numerator, denominator>>         *)
(*   int64, Duration  four 16-bit limbs, lowest first, wrapping at 2^64    *)
(*                                                                         *)
(* Specifications: Spec (one Lookup called directly), LiveSpec (Spec under *)
(* the scheduler's fairness), TimedSpec (Spec with the clock running),     *)
(* ConcreteSpec (Lookup over one of the HTTP clients and its exchange),    *)
(* PairSpec (two Lookups on one Aggregator), RunSpec (cmd/ipintel's run    *)
(* around one Lookup), ReportSpec (Consensus of an arbitrary Report),      *)
(* MethodsSpec (its other methods) and CallerSpec (all of them, called in  *)
(* any order).                                                             *)
(***************************************************************************)
EXTENDS Integers, Sequences, FiniteSets, TLC

\* ------------------------------------------------------------------ bounds
MaxProviders == 2
MaxClock == 1

\* ------------------------------------------------------------------ floats
\* A float64 is modelled as an exact rational <<numerator, denominator>> in
\* lowest terms with a positive denominator.
RECURSIVE Gcd(_, _)
Gcd(a, b) == IF b = 0 THEN a ELSE Gcd(b, a % b)

Abs(x) == IF x < 0 THEN -x ELSE x

Rat(n, d) ==
    LET g == Gcd(Abs(n), Abs(d))
        sgn == IF d < 0 THEN -1 ELSE 1
    IN  <<sgn * (n \div g), sgn * (d \div g)>>

Float(n) == <<n, 1>>

FloatAdd(x, y) == Rat(x[1] * y[2] + y[1] * x[2], x[2] * y[2])

\* x / float64(n), n > 0
FloatDivInt(x, n) == Rat(x[1], x[2] * n)

\* ------------------------------------------------------- model.Geolocation
Geolocation(ipAddr, country, lat, lon) ==
    [IP |-> ipAddr, Country |-> country, CountryCode |-> "", Region |-> "",
     City |-> "", Latitude |-> Float(lat), Longitude |-> Float(lon),
     ISP |-> "", Org |-> "", ASN |-> ""]

\* Geolocation{}: the zero value (the zero netip.Addr prints as "").
ZeroGeolocation == Geolocation("", "", 0, 0)

\* Mutant: a location needs both coordinates to be non-zero.
HasLocationBoth(g) == g.Latitude # Float(0) /\ g.Longitude # Float(0)

HasLocation(g) == g.Latitude # Float(0) \/ g.Longitude # Float(0)

IsEmpty(g) ==
    /\ g.Country = "" /\ g.CountryCode = "" /\ g.Region = "" /\ g.City = ""
    /\ g.Latitude = Float(0) /\ g.Longitude = Float(0)
    /\ g.ISP = "" /\ g.Org = "" /\ g.ASN = ""

\* ---------------------------------------------------- model.ProviderResult
NilResult == <<>>

\* The zero ProviderResult that make([]model.ProviderResult, n) fills in.
ZeroProviderResult ==
    [Provider |-> "", Result |-> NilResult, Error |-> "", Duration |-> 0]

\* Mutant: an outcome that carries a Result is a success.
SuccessWithResult(pr) == pr.Result # NilResult

Success(pr) == pr.Error = "" /\ pr.Result # NilResult

\* ------------------------------------------------------------ model.Report
RECURSIVE CountSuccess(_)
CountSuccess(results) ==
    IF results = <<>> THEN 0
    ELSE (IF Success(Head(results)) THEN 1 ELSE 0) + CountSuccess(Tail(results))

SuccessCount(r) == CountSuccess(r.Results)

\* Mutant: the outcomes that carry an error message are counted.
ErrorCountByMessage(r) ==
    Cardinality({i \in 1..Len(r.Results) : r.Results[i].Error # ""})

ErrorCount(r) == Len(r.Results) - SuccessCount(r)

\* Mutant: an outcome counts as successful as soon as it carries a Result.
SuccessfulResultsIgnoringError(r) ==
    SelectSeq(r.Results, LAMBDA pr : pr.Result # NilResult)

\* Mutant: each successful outcome is put in front of those found before.
SuccessfulResultsNewestFirst(r) ==
    LET kept == SelectSeq(r.Results, Success)
    IN  [k \in 1..Len(kept) |-> kept[Len(kept) + 1 - k]]

SuccessfulResults(r) == SelectSeq(r.Results, Success)

\* Go compares strings byte by byte; StringOrder lists, in that order, the
\* strings that occur in the voted fields.
StringOrder == <<"", "DE", "FR", "US">>

StrIndex(s) == CHOOSE i \in 1..Len(StringOrder) : StringOrder[i] = s

StrLess(a, b) == StrIndex(a) < StrIndex(b)

\* Mutant: among keys with the same count the greater string wins.
RECURSIVE MostVotedFromGreatest(_, _, _, _)
MostVotedFromGreatest(votes, keys, best, bestCount) ==
    IF keys = <<>> THEN best
    ELSE LET k == Head(keys)
             count == votes[k]
         IN  IF count > bestCount \/ (count = bestCount /\ StrLess(best, k))
             THEN MostVotedFromGreatest(votes, Tail(keys), k, count)
             ELSE MostVotedFromGreatest(votes, Tail(keys), best, bestCount)

\* Mutant: a key replaces the best one only with a strictly higher count, so
\* among tied keys the one the map yields first wins.
RECURSIVE MostVotedFromFirst(_, _, _, _)
MostVotedFromFirst(votes, keys, best, bestCount) ==
    IF keys = <<>> THEN best
    ELSE LET k == Head(keys)
             count == votes[k]
         IN  IF count > bestCount
             THEN MostVotedFromFirst(votes, Tail(keys), k, count)
             ELSE MostVotedFromFirst(votes, Tail(keys), best, bestCount)

\* The loop of mostVoted over the keys in the order the map yields them.
RECURSIVE MostVotedFrom(_, _, _, _)
MostVotedFrom(votes, keys, best, bestCount) ==
    IF keys = <<>> THEN best
    ELSE LET k == Head(keys)
             count == votes[k]
         IN  IF count > bestCount \/ (count = bestCount /\ StrLess(k, best))
             THEN MostVotedFrom(votes, Tail(keys), k, count)
             ELSE MostVotedFrom(votes, Tail(keys), best, bestCount)

\* Mutant: a field the outcomes disagree on is left empty.
mostVotedUnanimous(votes, iter) ==
    IF Cardinality(DOMAIN votes) > 1 THEN ""
    ELSE MostVotedFrom(votes, SelectSeq(iter, LAMBDA k : k \in DOMAIN votes), "", 0)

\* mostVoted(votes).  Go leaves the iteration order of a map unspecified:
\* iter is an ordering of all strings, and the map yields its keys in it.
mostVoted(votes, iter) ==
    MostVotedFrom(votes, SelectSeq(iter, LAMBDA k : k \in DOMAIN votes), "", 0)

\* Mutant: the first outcome to vote on a field has two votes.
FieldVotesFirstCountsTwice(successful, f) ==
    LET voters == {i \in 1..Len(successful) :
                      /\ successful[i].Result # NilResult
                      /\ successful[i].Result[1][f] # ""}
        keys == {successful[i].Result[1][f] : i \in voters}
        first == CHOOSE i \in voters : \A j \in voters : i <= j
    IN  [k \in keys |->
            Cardinality({i \in voters : successful[i].Result[1][f] = k})
            + (IF successful[first].Result[1][f] = k THEN 1 ELSE 0)]

\* The vote map of one field after the loop of Consensus: one vote for each
\* result with a non-empty value of the field.
FieldVotes(successful, f) ==
    LET voters == {i \in 1..Len(successful) :
                      /\ successful[i].Result # NilResult
                      /\ successful[i].Result[1][f] # ""}
        keys == {successful[i].Result[1][f] : i \in voters}
    IN  [k \in keys |-> Cardinality({i \in voters : successful[i].Result[1][f] = k})]

\* latSum, lonSum and coordCount after the loop of Consensus.
RECURSIVE CoordSums(_)
CoordSums(successful) ==
    IF successful = <<>> THEN [lat |-> Float(0), lon |-> Float(0), count |-> 0]
    ELSE LET pr == Head(successful)
             rest == CoordSums(Tail(successful))
         IN  IF pr.Result # NilResult /\ HasLocation(pr.Result[1])
             THEN [lat |-> FloatAdd(pr.Result[1].Latitude, rest.lat),
                   lon |-> FloatAdd(pr.Result[1].Longitude, rest.lon),
                   count |-> rest.count + 1]
             ELSE rest

Consensus(r, iter) ==
    LET successful == SuccessfulResults(r)
        vote(f) == mostVoted(FieldVotes(successful, f), iter)
        sums == CoordSums(successful)
    IN  IF Len(successful) = 0
        THEN [ZeroGeolocation EXCEPT !.IP = r.IP]
        ELSE [IP |-> r.IP,
              Country |-> vote("Country"),
              CountryCode |-> vote("CountryCode"),
              City |-> vote("City"),
              Region |-> vote("Region"),
              ISP |-> vote("ISP"),
              Org |-> vote("Org"),
              ASN |-> vote("ASN"),
              Latitude |-> IF sums.count > 0
                           THEN FloatDivInt(sums.lat, sums.count) ELSE Float(0),
              Longitude |-> IF sums.count > 0
                            THEN FloatDivInt(sums.lon, sums.count) ELSE Float(0)]


\* ------------------------------------------------------------------ errors
\* A Go error value: nil, or a non-nil error whose Error() is msg.
NilError == [isNil |-> TRUE, msg |-> ""]

ErrorNew(m) == [isNil |-> FALSE, msg |-> m]

\* context.DeadlineExceeded, what ctx.Err() returns once the deadline passed.
DeadlineExceeded == ErrorNew("context deadline exceeded")

\* The errors a provider's Check may return of its own accord; errors.New("")
\* is a non-nil error with an empty message.
CheckErrors == {NilError, ErrorNew(""), ErrorNew("boom")}

\* --------------------------------------------------------------- providers
\* The registered providers are drawn from two implementations of
\* provider.Provider: one that ignores the context (it sleeps and answers)
\* and one that selects on ctx.Done().
ProviderSet ==
    {[name |-> "mock", honoursCtx |-> FALSE],
     [name |-> "slow", honoursCtx |-> TRUE]}

Name(p) == p.name

\* The addresses Lookup is called with.
LookupAddrs == {"8.8.8.8"}

\* The Geolocations a Check may return.
CheckGeos == {ZeroGeolocation, Geolocation("8.8.8.8", "US", 37, -122)}

RECURSIVE SeqsUpTo(_, _)
SeqsUpTo(S, n) ==
    IF n = 0 THEN {<<>>}
    ELSE LET shorter == SeqsUpTo(S, n - 1)
         IN  shorter \cup {Append(q, x) : q \in {t \in shorter : Len(t) = n - 1}, x \in S}

\* ----------------------------------------------------------- time.Duration
\* A time.Duration is an int64 count of nanoseconds.  An int64 is modelled
\* by its two's complement bits, four 16-bit limbs with the lowest first;
\* arithmetic keeps the low 64 bits as Go's does.
LimbBase == 65536

\* The int64 of a number 0 <= n < 2^31.
Int64(n) == <<n % LimbBase, n \div LimbBase, 0, 0>>

RECURSIVE MulLimbs(_, _, _)
MulLimbs(x, m, carry) ==
    IF x = <<>> THEN <<>>
    ELSE LET p == Head(x) * m + carry
         IN  <<p % LimbBase>> \o MulLimbs(Tail(x), m, p \div LimbBase)

\* x * m in int64 for 0 <= m <= 1000; what does not fit 64 bits is lost.
Mul64(x, m) == MulLimbs(x, m, 0)

IsNegative(x) == x[4] >= LimbBase \div 2

\* x < y for two int64.
Less64(x, y) ==
    IF IsNegative(x) # IsNegative(y) THEN IsNegative(x)
    ELSE \E i \in 1..4 : x[i] < y[i] /\ \A j \in (i + 1)..4 : x[j] = y[j]

\* n * time.Millisecond (1000000 ns) for 0 <= n < 2^31.
Milliseconds(n) == Mul64(Mul64(Int64(n), 1000), 1000)

\* d * time.Second (1000000000 ns).
TimesSecond(d) == Mul64(Mul64(Mul64(d, 1000), 1000), 1000)

\* ------------------------------------------------------- model.IPAddress
\* The texts handed to the constructors of an address.
AddrTexts ==
    {"", "not-an-ip", "8.8.8.8", "8.8.8.8%eth0", "2001:db8::1", "fe80::1%eth0",
     "fe80::1%"}

\* How a text of AddrTexts reads: the family its part before any '%' is a
\* literal of, whether it has a '%', and what follows the '%'.
TextSyntax(s) ==
    CASE s = "8.8.8.8" -> [family |-> "v4", percent |-> FALSE, zone |-> ""]
      [] s = "8.8.8.8%eth0" -> [family |-> "v4", percent |-> TRUE, zone |-> "eth0"]
      [] s = "2001:db8::1" -> [family |-> "v6", percent |-> FALSE, zone |-> ""]
      [] s = "fe80::1%eth0" -> [family |-> "v6", percent |-> TRUE, zone |-> "eth0"]
      [] s = "fe80::1%" -> [family |-> "v6", percent |-> TRUE, zone |-> ""]
      [] OTHER -> [family |-> "none", percent |-> FALSE, zone |-> ""]

\* netip.Addr{}: the zero Addr, which is not valid and prints as "".
ZeroAddr == [is4 |-> FALSE, is6 |-> FALSE, zone |-> "", str |-> ""]

\* netip.ParseAddr: a dotted IPv4 literal, or an IPv6 literal that may carry
\* a non-empty zone after a '%'; the Addr keeps the zone and prints it.
NetipParseAddr(s) ==
    LET x == TextSyntax(s)
    IN  IF x.family = "v4" /\ ~x.percent
        THEN [addr |-> [is4 |-> TRUE, is6 |-> FALSE, zone |-> "", str |-> s],
              err |-> NilError]
        ELSE IF x.family = "v6" /\ (x.percent => x.zone # "")
        THEN [addr |-> [is4 |-> FALSE, is6 |-> TRUE, zone |-> x.zone, str |-> s],
              err |-> NilError]
        ELSE [addr |-> ZeroAddr, err |-> ErrorNew("unable to parse IP")]

\* model.ParseIPAddress
ParseIPAddress(s) ==
    IF s = ""
    THEN [addr |-> ZeroAddr, err |-> ErrorNew("empty IP address")]
    ELSE LET parsed == NetipParseAddr(s)
         IN  IF ~parsed.err.isNil
             THEN [addr |-> ZeroAddr, err |-> ErrorNew("invalid IP address")]
             ELSE IF parsed.addr.zone # ""
             THEN [addr |-> ZeroAddr,
                   err |-> ErrorNew("IP address contains zone identifier")]
             ELSE parsed

\* model.ParseAddr
ParseAddr(ipAddr) == NetipParseAddr(ipAddr)

\* -------------------------------------------------------------- cli.Config
FormatText == "text"

FormatJSON == "json"

\* provider.DefaultRequestTimeout, in milliseconds.
DefaultTimeoutMs == 10000

DefaultTimeout == Milliseconds(DefaultTimeoutMs)

\* The values of the --timeout flag, in milliseconds: the default, the two
\* limits of Validate and their neighbours outside.
TimeoutsMs == {99, 100, DefaultTimeoutMs, 60000, 60001}

\* The Configs Parse hands to run (neither help nor version asked for).
Configs ==
    [IPAddress : AddrTexts,
     Timeout : {Milliseconds(ms) : ms \in TimeoutsMs},
     Format : {FormatText, FormatJSON}]

\* Config.Validate
Validate(c) ==
    IF c.IPAddress = "" THEN ErrorNew("IP address is required")
    ELSE IF Less64(c.Timeout, Milliseconds(100))
    THEN ErrorNew("timeout must be at least 100 milliseconds")
    ELSE IF Less64(Milliseconds(60000), c.Timeout)
    THEN ErrorNew("timeout must not exceed 60 seconds")
    ELSE NilError

\* The providers run registers, in its order.
RunProviders ==
    <<[name |-> "ip-api", honoursCtx |-> TRUE],
      [name |-> "ipinfo", honoursCtx |-> TRUE],
      [name |-> "ipwhois", honoursCtx |-> TRUE]>>

\* --------------------------------------------------- the concrete providers
\* http.StatusOK
StatusOK == 200

\* What the upstream service does with one request: the transport fails or
\* delivers a response with a status code and a body; body is <<>> when
\* json.Decode fails on it and <<r>> when it decodes to the response r.
Exchanges(responses) ==
    [transport : {"ok", "refused"},
     status : {StatusOK, 429},
     body : {<<>>} \cup {<<r>> : r \in responses}]

\* strconv.ParseFloat on the numerals that occur in a "loc".
ParseFloat(t) ==
    CASE t = "37" -> [value |-> Float(37), ok |-> TRUE]
      [] t = "-122" -> [value |-> Float(-122), ok |-> TRUE]
      [] OTHER -> [value |-> Float(0), ok |-> FALSE]

\* strings.Split(loc, ",") on the values of "loc" that occur.
SplitLoc(loc) ==
    CASE loc = "37,-122" -> <<"37", "-122">>
      [] loc = "37,west" -> <<"37", "west">>
      [] loc = "north,-122" -> <<"north", "-122">>
      [] OTHER -> <<loc>>

\* ipinfo.parseLocation
parseLocation(loc) ==
    LET parts == SplitLoc(loc)
    IN  IF Len(parts) # 2
        THEN [lat |-> Float(0), lon |-> Float(0), ok |-> FALSE]
        ELSE IF ~ParseFloat(parts[1]).ok
        THEN [lat |-> Float(0), lon |-> Float(0), ok |-> FALSE]
        ELSE IF ~ParseFloat(parts[2]).ok
        THEN [lat |-> Float(0), lon |-> Float(0), ok |-> FALSE]
        ELSE [lat |-> ParseFloat(parts[1]).value,
              lon |-> ParseFloat(parts[2]).value, ok |-> TRUE]

\* strings.SplitN(org, " ", 2) on the values of "org" that occur.
SplitOrg(org) ==
    CASE org = "AS15169 Google LLC" -> <<"AS15169", "Google LLC">>
      [] org = "Google LLC" -> <<"Google", "LLC">>
      [] OTHER -> <<org>>

\* strings.HasPrefix(t, "AS") on the first parts that occur.
HasPrefixAS(t) == t = "AS15169"

\* ipinfo.parseOrg
parseOrg(org) ==
    LET parts == SplitOrg(org)
    IN  IF HasPrefixAS(parts[1])
        THEN [asn |-> parts[1], name |-> IF Len(parts) > 1 THEN parts[2] ELSE ""]
        ELSE [asn |-> "", name |-> org]

\* The bodies ipinfo.io may answer with, decoded: complete, empty, with a
\* "loc" or an "org" that does not parse, and an error object next to data.
IpinfoResponses ==
    LET full == [City |-> "Mountain View", Region |-> "California",
                 Country |-> "US", Loc |-> "37,-122",
                 Org |-> "AS15169 Google LLC", Error |-> <<>>]
    IN  {full,
         [City |-> "", Region |-> "", Country |-> "", Loc |-> "", Org |-> "",
          Error |-> <<>>],
         [full EXCEPT !.Loc = "37,west"],
         [full EXCEPT !.Loc = "north,-122"],
         [full EXCEPT !.Loc = "37"],
         [full EXCEPT !.Org = "Google LLC"],
         [full EXCEPT !.Org = "AS15169"],
         [full EXCEPT !.Error = <<[Title |-> "Wrong ip", Message |-> "bad"]>>]}

\* ipinfo's response.toGeoLocation
IpinfoToGeoLocation(r, ipAddr) ==
    LET loc == parseLocation(r.Loc)
        org == parseOrg(r.Org)
        located == r.Loc # "" /\ loc.ok
    IN  [IP |-> ipAddr, Country |-> "", CountryCode |-> r.Country,
         Region |-> r.Region, City |-> r.City,
         Latitude |-> IF located THEN loc.lat ELSE Float(0),
         Longitude |-> IF located THEN loc.lon ELSE Float(0),
         ISP |-> IF r.Org # "" THEN org.name ELSE "",
         Org |-> IF r.Org # "" THEN org.name ELSE "",
         ASN |-> IF r.Org # "" THEN org.asn ELSE ""]

\* Mutant: a "loc" that does not parse fails the whole Check.
IpinfoCheckStrictLoc(x, ipAddr, cancelled) ==
    IF cancelled \/ x.transport # "ok"
    THEN [geo |-> ZeroGeolocation, err |-> ErrorNew("executing request")]
    ELSE IF x.status # StatusOK
    THEN [geo |-> ZeroGeolocation, err |-> ErrorNew("unexpected status code")]
    ELSE IF x.body = <<>>
    THEN [geo |-> ZeroGeolocation, err |-> ErrorNew("decoding response")]
    ELSE IF x.body[1].Error # <<>>
    THEN [geo |-> ZeroGeolocation, err |-> ErrorNew("API error")]
    ELSE IF x.body[1].Loc # "" /\ ~parseLocation(x.body[1].Loc).ok
    THEN [geo |-> ZeroGeolocation, err |-> ErrorNew("parsing location")]
    ELSE [geo |-> IpinfoToGeoLocation(x.body[1], ipAddr), err |-> NilError]

\* ipinfo's Client.Check; cancelled: the request's context ended the
\* exchange, which c.requester.Do reports as its error.
IpinfoCheck(x, ipAddr, cancelled) ==
    IF cancelled \/ x.transport # "ok"
    THEN [geo |-> ZeroGeolocation, err |-> ErrorNew("executing request")]
    ELSE IF x.status # StatusOK
    THEN [geo |-> ZeroGeolocation, err |-> ErrorNew("unexpected status code")]
    ELSE IF x.body = <<>>
    THEN [geo |-> ZeroGeolocation, err |-> ErrorNew("decoding response")]
    ELSE IF x.body[1].Error # <<>>
    THEN [geo |-> ZeroGeolocation, err |-> ErrorNew("API error")]
    ELSE [geo |-> IpinfoToGeoLocation(x.body[1], ipAddr), err |-> NilError]

\* The bodies ip-api.com may answer with, decoded: complete, "success" with
\* nothing else, a failure with and without a message next to data, empty.
IpapiResponses ==
    LET full == [Status |-> "success", Message |-> "", Country |-> "United States",
                 CountryCode |-> "US", Region |-> "CA",
                 RegionName |-> "California", City |-> "Mountain View",
                 Lat |-> Float(37), Lon |-> Float(-122), ISP |-> "Google LLC",
                 Org |-> "Google Public DNS", AS |-> "AS15169 Google LLC"]
        empty == [Status |-> "", Message |-> "", Country |-> "",
                  CountryCode |-> "", Region |-> "", RegionName |-> "",
                  City |-> "", Lat |-> Float(0), Lon |-> Float(0), ISP |-> "",
                  Org |-> "", AS |-> ""]
    IN  {full, empty,
         [empty EXCEPT !.Status = "success"],
         [full EXCEPT !.City = "", !.Lat = Float(0)],
         [full EXCEPT !.Status = "fail", !.Message = "reserved range"],
         [full EXCEPT !.Status = "fail"]}

\* ip-api's response.toGeoLocation
IpapiToGeoLocation(r, ipAddr) ==
    [IP |-> ipAddr, Country |-> r.Country, CountryCode |-> r.CountryCode,
     Region |-> r.RegionName, City |-> r.City, Latitude |-> r.Lat,
     Longitude |-> r.Lon, ISP |-> r.ISP, Org |-> r.Org, ASN |-> r.AS]

\* ip-api's Client.Check
IpapiCheck(x, ipAddr, cancelled) ==
    IF cancelled \/ x.transport # "ok"
    THEN [geo |-> ZeroGeolocation, err |-> ErrorNew("executing request")]
    ELSE IF x.status # StatusOK
    THEN [geo |-> ZeroGeolocation, err |-> ErrorNew("unexpected status code")]
    ELSE IF x.body = <<>>
    THEN [geo |-> ZeroGeolocation, err |-> ErrorNew("decoding response")]
    ELSE IF x.body[1].Status # "success"
    THEN [geo |-> ZeroGeolocation,
          err |-> ErrorNew(IF x.body[1].Message = "" THEN "API error: unknown error"
                           ELSE "API error")]
    ELSE [geo |-> IpapiToGeoLocation(x.body[1], ipAddr), err |-> NilError]

\* The bodies ipwhois.app may answer with, decoded.
IpwhoisResponses ==
    LET full == [Success |-> TRUE, Message |-> "", Country |-> "United States",
                 CountryCode |-> "US", Region |-> "California",
                 City |-> "Mountain View", Latitude |-> Float(37),
                 Longitude |-> Float(-122), ISP |-> "Google LLC",
                 Org |-> "Google LLC", ASN |-> "AS15169"]
        empty == [Success |-> FALSE, Message |-> "", Country |-> "",
                  CountryCode |-> "", Region |-> "", City |-> "",
                  Latitude |-> Float(0), Longitude |-> Float(0), ISP |-> "",
                  Org |-> "", ASN |-> ""]
    IN  {full, empty,
         [empty EXCEPT !.Success = TRUE],
         [full EXCEPT !.ISP = "", !.Longitude = Float(0)],
         [full EXCEPT !.Success = FALSE, !.Message = "Invalid IP address"],
         [full EXCEPT !.Success = FALSE]}

\* ipwhois' Client.Check
IpwhoisCheck(x, ipAddr, cancelled) ==
    IF cancelled \/ x.transport # "ok"
    THEN [geo |-> ZeroGeolocation, err |-> ErrorNew("executing request")]
    ELSE IF x.status # StatusOK
    THEN [geo |-> ZeroGeolocation, err |-> ErrorNew("unexpected status code")]
    ELSE IF x.body = <<>>
    THEN [geo |-> ZeroGeolocation, err |-> ErrorNew("decoding response")]
    ELSE IF ~x.body[1].Success
    THEN [geo |-> ZeroGeolocation,
          err |-> ErrorNew(IF x.body[1].Message = "" THEN "API error: unknown error"
                           ELSE "API error")]
    ELSE [geo |-> [IP |-> ipAddr, Country |-> x.body[1].Country,
                   CountryCode |-> x.body[1].CountryCode,
                   Region |-> x.body[1].Region, City |-> x.body[1].City,
                   Latitude |-> x.body[1].Latitude,
                   Longitude |-> x.body[1].Longitude, ISP |-> x.body[1].ISP,
                   Org |-> x.body[1].Org, ASN |-> x.body[1].ASN],
          err |-> NilError]

\* No second call of Lookup is made.
NoOther ==
    [pc |-> "none", loopIdx |-> 1, wg |-> 0,
     report |-> [IP |-> "", Timestamp |-> 0, Results |-> <<>>, TotalDuration |-> 0],
     taskpc |-> <<>>, ret |-> <<>>]

\* No exchange: the providers of the Lookup are not the HTTP clients.
NoExchange ==
    [arrived |-> "no", x |-> [transport |-> "ok", status |-> StatusOK, body |-> <<>>]]

\* The responses of the service the provider p asks.
ResponsesOf(p) ==
    CASE Name(p) = "ip-api" -> IpapiResponses
      [] Name(p) = "ipinfo" -> IpinfoResponses
      [] Name(p) = "ipwhois" -> IpwhoisResponses

\* p.Check(ctx, ip) of the concrete provider p on the exchange x.
ConcreteCheck(p, x, ipAddr, cancelled) ==
    CASE Name(p) = "ip-api" -> IpapiCheck(x, ipAddr, cancelled)
      [] Name(p) = "ipinfo" -> IpinfoCheck(x, ipAddr, cancelled)
      [] Name(p) = "ipwhois" -> IpwhoisCheck(x, ipAddr, cancelled)

\* ------------------------------------------------------------------- state
VARIABLES
    providers,      \* a.providers, in registration order
    ip,             \* the address passed to Lookup
    now,            \* the clock time.Now() reads
    ctxDone,        \* whether ctx.Done() is closed (deadline passed or cancelled)
    pc,             \* where the goroutine calling Lookup stands
    loopIdx,        \* the index the range loop of Lookup reaches next
    wg,             \* the WaitGroup's counter
    report,         \* the model.Report under construction, then returned
    taskpc,         \* where the goroutine started for provider i stands
    providerStart,  \* its local providerStart
    ret,            \* what its p.Check returned: [geo, err]
    duration,       \* its local duration
    calls,          \* how many times p.Check was entered for index i
    respondedAtDone,\* whether some Check had returned when ctx became done
    crashed,        \* whether the runtime has terminated the process
    consensus,      \* what the caller's last report.Consensus() returned, in <<_>>
    cfg,            \* the cli.Config that run works with
    exitCode,       \* what run returned, in <<_>>
    ctxTimeout,     \* the timeout run gave context.WithTimeout, in <<_>>
    httpTimeout,    \* the Timeout of the http.Client run built, in <<_>>
    stdout,         \* what the Formatter wrote to os.Stdout
    callResult,     \* the caller's last call of another method of the Report
                    \* and what it returned, in <<_>>
    upstream,       \* the HTTP exchange of a concrete provider's Check: what
                    \* the service answers and whether the answer has arrived
    other           \* a second call of Lookup on the same Aggregator: its pc,
                    \* loop index, WaitGroup, Report and tasks

vars == <<providers, ip, now, ctxDone, pc, loopIdx, wg, report, taskpc,
          providerStart, ret, duration, calls, respondedAtDone, crashed,
          consensus, cfg, exitCode, ctxTimeout, httpTimeout, stdout,
          callResult, upstream, other>>

N == Len(providers)

Tasks == 1..N

\* The task's Check has returned (normally) and the task runs lines 46-59,
\* the deferred wg.Done, or is over.
CheckReturned(i) == taskpc[i] \in {"checked", "written", "done"}

\* The task is inside p.Check.
InFlight(i) == taskpc[i] = "checking"

NoReport == [IP |-> "", Timestamp |-> 0, Results |-> <<>>, TotalDuration |-> 0]

Init ==
    /\ providers \in SeqsUpTo(ProviderSet, MaxProviders)
    /\ ip \in LookupAddrs
    /\ now = 0
    /\ ctxDone = FALSE
    /\ pc = "call"
    /\ loopIdx = 1
    /\ wg = 0
    /\ report = NoReport
    /\ taskpc = [i \in Tasks |-> "idle"]
    /\ providerStart = [i \in Tasks |-> 0]
    /\ ret = [i \in Tasks |-> [geo |-> ZeroGeolocation, err |-> NilError]]
    /\ duration = [i \in Tasks |-> 0]
    /\ calls = [i \in Tasks |-> 0]
    /\ respondedAtDone = FALSE
    /\ crashed = FALSE
    /\ consensus = <<>>
    /\ cfg = [IPAddress |-> ip, Timeout |-> DefaultTimeout, Format |-> FormatText]
    /\ exitCode = <<>>
    /\ ctxTimeout = <<>>
    /\ httpTimeout = <<>>
    /\ stdout = <<>>
    /\ callResult = <<>>
    /\ upstream = NoExchange
    /\ other = NoOther

\* ------------------------------------------------------- Aggregator.Lookup
\* Lines 29-38: start := time.Now(), the Report with its pre-sized Results,
\* wg.Add(len(a.providers)).
LookupBegin ==
    /\ ~crashed
    /\ pc = "call"
    /\ report' = [IP |-> ip, Timestamp |-> now,
                  Results |-> [i \in Tasks |-> ZeroProviderResult],
                  TotalDuration |-> 0]
    /\ wg' = N
    /\ loopIdx' = 1
    /\ pc' = IF N = 0 THEN "wait" ELSE "spawn"
    /\ UNCHANGED <<providers, ip, now, ctxDone, taskpc, providerStart, ret,
                   duration, calls, respondedAtDone, crashed,
                   consensus,
                   cfg, exitCode, ctxTimeout, httpTimeout, stdout, callResult, upstream, other>>

\* Mutant: the loop starts a task only after the one before it has finished.
SpawnAfterPrevious ==
    /\ ~crashed
    /\ pc = "spawn"
    /\ loopIdx <= N
    /\ (loopIdx > 1 => taskpc[loopIdx - 1] = "done")
    /\ taskpc' = [taskpc EXCEPT ![loopIdx] = "ready"]
    /\ loopIdx' = loopIdx + 1
    /\ pc' = IF loopIdx = N THEN "wait" ELSE "spawn"
    /\ UNCHANGED <<providers, ip, now, ctxDone, wg, report, providerStart, ret,
                   duration, calls, respondedAtDone, crashed, consensus,
                   cfg, exitCode, ctxTimeout, httpTimeout, stdout, callResult, upstream, other>>

\* Lines 40-41, 60: one iteration of the range loop starts the goroutine for
\* index loopIdx and moves on without waiting for it.
Spawn ==
    /\ ~crashed
    /\ pc = "spawn"
    /\ loopIdx <= N
    /\ taskpc' = [taskpc EXCEPT ![loopIdx] = "ready"]
    /\ loopIdx' = loopIdx + 1
    /\ pc' = IF loopIdx = N THEN "wait" ELSE "spawn"
    /\ UNCHANGED <<providers, ip, now, ctxDone, wg, report, providerStart, ret,
                   duration, calls, respondedAtDone, crashed,
                   consensus,
                   cfg, exitCode, ctxTimeout, httpTimeout, stdout, callResult, upstream, other>>

\* Mutant: the wait also ends when the context is done.
WaitOrCtxDone ==
    /\ ~crashed
    /\ pc = "wait"
    /\ (wg = 0 \/ ctxDone)
    /\ pc' = "stamp"
    /\ UNCHANGED <<providers, ip, now, ctxDone, loopIdx, wg, report, taskpc,
                   providerStart, ret, duration, calls, respondedAtDone, crashed,
                   consensus,
                   cfg, exitCode, ctxTimeout, httpTimeout, stdout, callResult, upstream, other>>

\* Line 63: wg.Wait() returns once the counter is zero, and on nothing else.
Wait ==
    /\ ~crashed
    /\ pc = "wait"
    /\ wg = 0
    /\ pc' = "stamp"
    /\ UNCHANGED <<providers, ip, now, ctxDone, loopIdx, wg, report, taskpc,
                   providerStart, ret, duration, calls, respondedAtDone, crashed,
                   consensus,
                   cfg, exitCode, ctxTimeout, httpTimeout, stdout, callResult, upstream, other>>

\* Lines 64-66: report.TotalDuration = time.Since(start); return report.
Return ==
    /\ ~crashed
    /\ pc = "stamp"
    /\ report' = [report EXCEPT !.TotalDuration = now - report.Timestamp]
    /\ pc' = "returned"
    /\ UNCHANGED <<providers, ip, now, ctxDone, loopIdx, wg, taskpc,
                   providerStart, ret, duration, calls, respondedAtDone, crashed,
                   consensus,
                   cfg, exitCode, ctxTimeout, httpTimeout, stdout, callResult, upstream, other>>

\* ------------------------------------------- the goroutine of provider idx
\* Mutant: the task measures from the zero instant, not from time.Now().
TaskStartFromZero(idx) ==
    /\ ~crashed
    /\ taskpc[idx] = "ready"
    /\ providerStart' = [providerStart EXCEPT ![idx] = 0]
    /\ calls' = [calls EXCEPT ![idx] = @ + 1]
    /\ taskpc' = [taskpc EXCEPT ![idx] = "checking"]
    /\ UNCHANGED <<providers, ip, now, ctxDone, pc, loopIdx, wg, report, ret,
                   duration, respondedAtDone, crashed, consensus,
                   cfg, exitCode, ctxTimeout, httpTimeout, stdout, callResult,
                   upstream, other>>

\* Lines 44-45: providerStart := time.Now(), then p.Check(ctx, ip) is entered.
TaskStart(idx) ==
    /\ ~crashed
    /\ taskpc[idx] = "ready"
    /\ providerStart' = [providerStart EXCEPT ![idx] = now]
    /\ calls' = [calls EXCEPT ![idx] = @ + 1]
    /\ taskpc' = [taskpc EXCEPT ![idx] = "checking"]
    /\ UNCHANGED <<providers, ip, now, ctxDone, pc, loopIdx, wg, report, ret,
                   duration, respondedAtDone, crashed,
                   consensus,
                   cfg, exitCode, ctxTimeout, httpTimeout, stdout, callResult, upstream, other>>

\* Mutant: no provider looks at the context.
CheckResultsIgnoringCtx(p) == [geo : CheckGeos, err : CheckErrors]

\* What p.Check may return.  A provider that honours the context returns
\* (Geolocation{}, ctx.Err()) when it finds ctx.Done() closed; otherwise, and
\* for a provider that ignores the context, any pair is possible.
CheckResults(p) ==
    IF p.honoursCtx /\ ctxDone
    THEN {[geo |-> ZeroGeolocation, err |-> DeadlineExceeded]}
    ELSE [geo : CheckGeos, err : CheckErrors]

\* Mutant: a task whose Check returned an error calls it again.
CheckReturnRetrying(idx) ==
    /\ ~crashed
    /\ taskpc[idx] = "checking"
    /\ \E r \in CheckResults(providers[idx]) :
          /\ ret' = [ret EXCEPT ![idx] = r]
          /\ taskpc' = [taskpc EXCEPT ![idx] = IF r.err.isNil THEN "checked" ELSE "ready"]
    /\ duration' = [duration EXCEPT ![idx] = now - providerStart[idx]]
    /\ UNCHANGED <<providers, ip, now, ctxDone, pc, loopIdx, wg, report,
                   providerStart, calls, respondedAtDone, crashed, consensus,
                   cfg, exitCode, ctxTimeout, httpTimeout, stdout, callResult, upstream, other>>

\* Lines 45-46: p.Check returns result, err; duration := time.Since(providerStart).
CheckReturn(idx) ==
    /\ ~crashed
    /\ taskpc[idx] = "checking"
    /\ \E r \in CheckResults(providers[idx]) : ret' = [ret EXCEPT ![idx] = r]
    /\ duration' = [duration EXCEPT ![idx] = now - providerStart[idx]]
    /\ taskpc' = [taskpc EXCEPT ![idx] = "checked"]
    /\ UNCHANGED <<providers, ip, now, ctxDone, pc, loopIdx, wg, report,
                   providerStart, calls, respondedAtDone, crashed,
                   consensus,
                   cfg, exitCode, ctxTimeout, httpTimeout, stdout, callResult, upstream, other>>

\* Mutant: the Geolocation is kept also when Check returned an error.
MakeProviderResultKeepingResult(p, result, err, d) ==
    [Provider |-> Name(p), Result |-> <<result>>,
     Error |-> IF err.isNil THEN "" ELSE err.msg, Duration |-> d]

\* Lines 48-57: the ProviderResult built from what Check returned.
MakeProviderResult(p, result, err, d) ==
    IF ~err.isNil
    THEN [Provider |-> Name(p), Result |-> NilResult, Error |-> err.msg, Duration |-> d]
    ELSE [Provider |-> Name(p), Result |-> <<result>>, Error |-> "", Duration |-> d]

\* Lines 48-59: report.Results[idx] = pr.
WriteSlot(idx) ==
    /\ ~crashed
    /\ taskpc[idx] = "checked"
    /\ report' = [report EXCEPT !.Results[idx] =
                     MakeProviderResult(providers[idx], ret[idx].geo, ret[idx].err,
                                        duration[idx])]
    /\ taskpc' = [taskpc EXCEPT ![idx] = "written"]
    /\ UNCHANGED <<providers, ip, now, ctxDone, pc, loopIdx, wg, providerStart,
                   ret, duration, calls, respondedAtDone, crashed,
                   consensus,
                   cfg, exitCode, ctxTimeout, httpTimeout, stdout, callResult, upstream, other>>

\* Line 42: the deferred wg.Done() as the goroutine's function returns.
TaskDone(idx) ==
    /\ ~crashed
    /\ taskpc[idx] = "written"
    /\ wg' = wg - 1
    /\ taskpc' = [taskpc EXCEPT ![idx] = "done"]
    /\ UNCHANGED <<providers, ip, now, ctxDone, pc, loopIdx, report,
                   providerStart, ret, duration, calls, respondedAtDone, crashed,
                   consensus,
                   cfg, exitCode, ctxTimeout, httpTimeout, stdout, callResult, upstream, other>>

\* p.Check panics.  The goroutine has no recover (lines 41-60): it starts to
\* unwind, skipping lines 46-59.
CheckPanic(idx) ==
    /\ ~crashed
    /\ taskpc[idx] = "checking"
    /\ taskpc' = [taskpc EXCEPT ![idx] = "panicking"]
    /\ UNCHANGED <<providers, ip, now, ctxDone, pc, loopIdx, wg, report,
                   providerStart, ret, duration, calls, respondedAtDone, crashed,
                   consensus,
                   cfg, exitCode, ctxTimeout, httpTimeout, stdout, callResult, upstream, other>>

\* Line 42 while panicking: deferred calls run before the runtime ends the
\* process, so wg.Done() still counts the task as finished.
PanicUnwind(idx) ==
    /\ ~crashed
    /\ taskpc[idx] = "panicking"
    /\ wg' = wg - 1
    /\ taskpc' = [taskpc EXCEPT ![idx] = "dying"]
    /\ UNCHANGED <<providers, ip, now, ctxDone, pc, loopIdx, report,
                   providerStart, ret, duration, calls, respondedAtDone, crashed,
                   consensus,
                   cfg, exitCode, ctxTimeout, httpTimeout, stdout, callResult, upstream, other>>

\* The unrecovered panic reaches the top of the goroutine: the runtime
\* terminates the whole process, the other goroutines with it.
Crash ==
    /\ ~crashed
    /\ \E i \in Tasks : taskpc[i] = "dying"
    /\ crashed' = TRUE
    /\ UNCHANGED <<providers, ip, now, ctxDone, pc, loopIdx, wg, report, taskpc,
                   providerStart, ret, duration, calls, respondedAtDone,
                   consensus,
                   cfg, exitCode, ctxTimeout, httpTimeout, stdout, callResult, upstream, other>>

\* ------------------------------------------------------------- environment
\* Mutant: the expiry also turns the outcome of every Check that has
\* returned and is not yet in its slot into a cancellation failure.
ExpireCancellingReturned ==
    /\ ~crashed
    /\ ~ctxDone
    /\ pc \notin {"main", "returned", "exited"}
    /\ ctxDone' = TRUE
    /\ respondedAtDone' = (\E i \in Tasks : CheckReturned(i))
    /\ ret' = [i \in Tasks |->
                 IF taskpc[i] = "checked"
                 THEN [geo |-> ZeroGeolocation, err |-> DeadlineExceeded]
                 ELSE ret[i]]
    /\ UNCHANGED <<providers, ip, now, pc, loopIdx, wg, report, taskpc,
                   providerStart, duration, calls, crashed, consensus,
                   cfg, exitCode, ctxTimeout, httpTimeout, stdout, callResult,
                   upstream, other>>

\* The shared context's deadline passes (or its cancel function is called).
Expire ==
    /\ ~crashed
    /\ ~ctxDone
    /\ pc \notin {"main", "returned", "exited"}
    /\ ctxDone' = TRUE
    /\ respondedAtDone' = (\E i \in Tasks : CheckReturned(i))
    /\ UNCHANGED <<providers, ip, now, pc, loopIdx, wg, report, taskpc,
                   providerStart, ret, duration, calls, crashed,
                   consensus,
                   cfg, exitCode, ctxTimeout, httpTimeout, stdout, callResult, upstream, other>>

\* Time passes.
Tick ==
    /\ ~crashed
    /\ pc # "returned"
    /\ now < MaxClock
    /\ now' = now + 1
    /\ UNCHANGED <<providers, ip, ctxDone, pc, loopIdx, wg, report, taskpc,
                   providerStart, ret, duration, calls, respondedAtDone, crashed,
                   consensus,
                   cfg, exitCode, ctxTimeout, httpTimeout, stdout, callResult, upstream, other>>

\* ------------------------------------------------- the caller of the Report
\* The strings a vote map may have as keys: Consensus never votes for "".
VoteKeys == SelectSeq(StringOrder, LAMBDA s : s # "")

\* The orders in which a Go map may yield its keys.
IterOrders ==
    {[i \in 1..Len(VoteKeys) |-> VoteKeys[perm[i]]] :
        perm \in Permutations(1..Len(VoteKeys))}

\* The caller (the text formatter) calls report.Consensus() on the Report it
\* was handed.
CallConsensus ==
    /\ ~crashed
    /\ pc = "returned"
    /\ cfg.Format = FormatText
    /\ \E iter \in IterOrders : consensus' = <<Consensus(report, iter)>>
    /\ UNCHANGED <<providers, ip, now, ctxDone, pc, loopIdx, wg, report, taskpc,
                   providerStart, ret, duration, calls, respondedAtDone, crashed,
                   cfg, exitCode, ctxTimeout, httpTimeout, stdout, callResult, upstream, other>>

\* The caller calls report.Results[i].Success().
CallSuccess(i) ==
    /\ ~crashed
    /\ pc = "returned"
    /\ callResult' = <<[method |-> "Success", arg |-> i,
                        value |-> Success(report.Results[i])]>>
    /\ UNCHANGED <<providers, ip, now, ctxDone, pc, loopIdx, wg, report, taskpc,
                   providerStart, ret, duration, calls, respondedAtDone, crashed,
                   consensus, cfg, exitCode, ctxTimeout, httpTimeout, stdout, upstream, other>>

\* The caller calls report.SuccessCount().
CallSuccessCount ==
    /\ ~crashed
    /\ pc = "returned"
    /\ callResult' = <<[method |-> "SuccessCount", arg |-> 0,
                        value |-> SuccessCount(report)]>>
    /\ UNCHANGED <<providers, ip, now, ctxDone, pc, loopIdx, wg, report, taskpc,
                   providerStart, ret, duration, calls, respondedAtDone, crashed,
                   consensus, cfg, exitCode, ctxTimeout, httpTimeout, stdout, upstream, other>>

\* The caller calls report.ErrorCount().
CallErrorCount ==
    /\ ~crashed
    /\ pc = "returned"
    /\ callResult' = <<[method |-> "ErrorCount", arg |-> 0,
                        value |-> ErrorCount(report)]>>
    /\ UNCHANGED <<providers, ip, now, ctxDone, pc, loopIdx, wg, report, taskpc,
                   providerStart, ret, duration, calls, respondedAtDone, crashed,
                   consensus, cfg, exitCode, ctxTimeout, httpTimeout, stdout, upstream, other>>

\* Mutant: SuccessfulResults() filters in place (results := r.Results[:0]),
\* so the successes overwrite the front of the Report's own array.
CallSuccessfulResultsInPlace ==
    /\ ~crashed
    /\ pc = "returned"
    /\ callResult' = <<[method |-> "SuccessfulResults", arg |-> 0,
                        value |-> SuccessfulResults(report)]>>
    /\ report' = [report EXCEPT !.Results =
                     SuccessfulResults(report)
                         \o SubSeq(report.Results, SuccessCount(report) + 1,
                                   Len(report.Results))]
    /\ UNCHANGED <<providers, ip, now, ctxDone, pc, loopIdx, wg, taskpc,
                   providerStart, ret, duration, calls, respondedAtDone, crashed,
                   consensus, cfg, exitCode, ctxTimeout, httpTimeout, stdout,
                   upstream, other>>

\* The caller calls report.SuccessfulResults(); the slice it gets is a new
\* one, the Report's own is only read.
CallSuccessfulResults ==
    /\ ~crashed
    /\ pc = "returned"
    /\ callResult' = <<[method |-> "SuccessfulResults", arg |-> 0,
                        value |-> SuccessfulResults(report)]>>
    /\ UNCHANGED <<providers, ip, now, ctxDone, pc, loopIdx, wg, report, taskpc,
                   providerStart, ret, duration, calls, respondedAtDone, crashed,
                   consensus, cfg, exitCode, ctxTimeout, httpTimeout, stdout, upstream, other>>

\* One call of a method of the Report other than Consensus().
CallMethod ==
    \/ \E i \in 1..Len(report.Results) : CallSuccess(i)
    \/ CallSuccessCount
    \/ CallErrorCount
    \/ CallSuccessfulResults

TaskNext(idx) ==
    \/ TaskStart(idx)
    \/ CheckReturn(idx)
    \/ WriteSlot(idx)
    \/ TaskDone(idx)
    \/ CheckPanic(idx)
    \/ PanicUnwind(idx)

Next ==
    \/ LookupBegin
    \/ Spawn
    \/ Wait
    \/ Return
    \/ \E idx \in Tasks : TaskNext(idx)
    \/ Crash
    \/ Expire
    \/ CallConsensus

\* Lookup with the clock standing still: every time.Now() reads the same
\* instant and every duration is zero.
Spec == Init /\ [][Next]_vars

\* Lookup with time passing between its steps.
TimedNext == Next \/ Tick

\* The Aggregators whose Lookup is followed along the clock: none, one and
\* two providers, of both kinds.
TimedProviders ==
    {<<>>,
     <<[name |-> "slow", honoursCtx |-> TRUE]>>,
     <<[name |-> "mock", honoursCtx |-> FALSE], [name |-> "slow", honoursCtx |-> TRUE]>>}

TimedInit == Init /\ providers \in TimedProviders

TimedSpec == TimedInit /\ [][TimedNext]_vars

\* ---------------------------------------- Lookup over a concrete provider
\* The service's answer reaches the client while Check waits in Do; an
\* answer that comes after ctx.Done() closed is "late": net/http has given
\* the request up by then.
ResponseArrives(idx) ==
    /\ ~crashed
    /\ taskpc[idx] = "checking"
    /\ upstream.arrived = "no"
    /\ upstream' = [upstream EXCEPT !.arrived = IF ctxDone THEN "late" ELSE "intime"]
    /\ UNCHANGED <<providers, ip, now, ctxDone, pc, loopIdx, wg, report, taskpc,
                   providerStart, ret, duration, calls, respondedAtDone, crashed,
                   consensus, cfg, exitCode, ctxTimeout, httpTimeout, stdout,
                   callResult, other>>

\* Mutant: Check does not pass ctx to the request and waits for the answer.
ConcreteCheckReturnWithoutCtx(idx) ==
    /\ ~crashed
    /\ taskpc[idx] = "checking"
    /\ upstream.arrived # "no"
    /\ ret' = [ret EXCEPT ![idx] = ConcreteCheck(providers[idx], upstream.x, ip, FALSE)]
    /\ duration' = [duration EXCEPT ![idx] = now - providerStart[idx]]
    /\ taskpc' = [taskpc EXCEPT ![idx] = "checked"]
    /\ UNCHANGED <<providers, ip, now, ctxDone, pc, loopIdx, wg, report,
                   providerStart, calls, respondedAtDone, crashed, consensus,
                   cfg, exitCode, ctxTimeout, httpTimeout, stdout, callResult,
                   upstream, other>>

\* Lines 45-46 with a concrete provider: Check returns once the answer is
\* there or ctx.Done() is closed, whichever Do notices; the request made with
\* http.NewRequestWithContext ends with an error in the second case.
ConcreteCheckReturn(idx) ==
    /\ ~crashed
    /\ taskpc[idx] = "checking"
    /\ \E cancelled \in BOOLEAN :
          /\ cancelled => ctxDone
          /\ ~cancelled => upstream.arrived = "intime"
          /\ ret' = [ret EXCEPT ![idx] =
                        ConcreteCheck(providers[idx], upstream.x, ip, cancelled)]
    /\ duration' = [duration EXCEPT ![idx] = now - providerStart[idx]]
    /\ taskpc' = [taskpc EXCEPT ![idx] = "checked"]
    /\ UNCHANGED <<providers, ip, now, ctxDone, pc, loopIdx, wg, report,
                   providerStart, calls, respondedAtDone, crashed, consensus,
                   cfg, exitCode, ctxTimeout, httpTimeout, stdout, callResult,
                   upstream, other>>

\* Lookup over one of the HTTP clients that main registers, asked for an
\* address the service answers in one of the ways of Exchanges.
ConcreteInit ==
    /\ providers \in {<<RunProviders[k]>> : k \in 1..Len(RunProviders)}
    /\ ip \in LookupAddrs
    /\ now = 0
    /\ ctxDone = FALSE
    /\ pc = "call"
    /\ loopIdx = 1
    /\ wg = 0
    /\ report = NoReport
    /\ taskpc = [i \in Tasks |-> "idle"]
    /\ providerStart = [i \in Tasks |-> 0]
    /\ ret = [i \in Tasks |-> [geo |-> ZeroGeolocation, err |-> NilError]]
    /\ duration = [i \in Tasks |-> 0]
    /\ calls = [i \in Tasks |-> 0]
    /\ respondedAtDone = FALSE
    /\ crashed = FALSE
    /\ consensus = <<>>
    /\ cfg = [IPAddress |-> ip, Timeout |-> DefaultTimeout, Format |-> FormatText]
    /\ exitCode = <<>>
    /\ ctxTimeout = <<>>
    /\ httpTimeout = <<>>
    /\ stdout = <<>>
    /\ callResult = <<>>
    /\ upstream \in [arrived : {"no"}, x : Exchanges(ResponsesOf(providers[1]))]
    /\ other = NoOther

ConcreteTaskNext(idx) ==
    \/ TaskStart(idx)
    \/ ResponseArrives(idx)
    \/ ConcreteCheckReturn(idx)
    \/ WriteSlot(idx)
    \/ TaskDone(idx)

ConcreteNext ==
    \/ LookupBegin
    \/ Spawn
    \/ Wait
    \/ Return
    \/ \E idx \in Tasks : ConcreteTaskNext(idx)
    \/ Expire

ConcreteSpec == ConcreteInit /\ [][ConcreteNext]_vars


\* ------------------------------------------------------- cmd/ipintel run
\* run is handed a Config; the provider list of lines 87-91, or the first
\* few of it, is what the Aggregator is built from.
RunInit ==
    /\ cfg \in Configs
    /\ providers \in {SubSeq(RunProviders, 1, n) : n \in 0..Len(RunProviders)}
    /\ ip = ZeroAddr.str
    /\ now = 0
    /\ ctxDone = FALSE
    /\ pc = "main"
    /\ loopIdx = 1
    /\ wg = 0
    /\ report = NoReport
    /\ taskpc = [i \in Tasks |-> "idle"]
    /\ providerStart = [i \in Tasks |-> 0]
    /\ ret = [i \in Tasks |-> [geo |-> ZeroGeolocation, err |-> NilError]]
    /\ duration = [i \in Tasks |-> 0]
    /\ calls = [i \in Tasks |-> 0]
    /\ respondedAtDone = FALSE
    /\ crashed = FALSE
    /\ consensus = <<>>
    /\ exitCode = <<>>
    /\ ctxTimeout = <<>>
    /\ httpTimeout = <<>>
    /\ stdout = <<>>
    /\ callResult = <<>>
    /\ upstream = NoExchange
    /\ other = NoOther

\* Lines 63-99, up to the call of agg.Lookup: Validate, ParseAddr, the
\* http.Client and the context with their timeouts.  A context made with a
\* timeout that is not positive is done from the start.
RunBegin ==
    /\ pc = "main"
    /\ LET parsed == ParseAddr(cfg.IPAddress)
           timeout == TimesSecond(cfg.Timeout)
       IN  IF ~Validate(cfg).isNil \/ ~parsed.err.isNil
           THEN /\ exitCode' = <<1>>
                /\ pc' = "exited"
                /\ UNCHANGED <<ip, ctxDone, ctxTimeout, httpTimeout>>
           ELSE /\ ip' = parsed.addr.str
                /\ httpTimeout' = <<timeout>>
                /\ ctxTimeout' = <<timeout>>
                /\ ctxDone' = ~Less64(Int64(0), timeout)
                /\ pc' = "call"
                /\ UNCHANGED exitCode
    /\ UNCHANGED <<providers, now, loopIdx, wg, report, taskpc, providerStart,
                   ret, duration, calls, respondedAtDone, crashed, consensus,
                   cfg, stdout, callResult, upstream, other>>

\* Mutant: run returns 1 as soon as one provider failed.
RunEndFailingOnAnyError ==
    /\ ~crashed
    /\ pc = "returned"
    /\ cfg.Format = FormatText => consensus # <<>>
    /\ \E written \in BOOLEAN :
          IF ~written
          THEN exitCode' = <<1>> /\ UNCHANGED stdout
          ELSE /\ stdout' = <<[format |-> cfg.Format, report |-> report]>>
               /\ exitCode' = IF ErrorCount(report) > 0 THEN <<1>> ELSE <<0>>
    /\ pc' = "exited"
    /\ UNCHANGED <<providers, ip, now, ctxDone, loopIdx, wg, report, taskpc,
                   providerStart, ret, duration, calls, respondedAtDone,
                   crashed, consensus, cfg, ctxTimeout, httpTimeout, callResult, upstream, other>>

\* Lines 102-113: formatter.Format writes the Report to os.Stdout in
\* cfg.Format (formatText has called report.Consensus() by then), the write
\* may fail; then the exit code.
RunEnd ==
    /\ ~crashed
    /\ pc = "returned"
    /\ cfg.Format = FormatText => consensus # <<>>
    /\ \E written \in BOOLEAN :
          IF ~written
          THEN exitCode' = <<1>> /\ UNCHANGED stdout
          ELSE /\ stdout' = <<[format |-> cfg.Format, report |-> report]>>
               /\ exitCode' =
                     IF SuccessCount(report) = 0 /\ Len(report.Results) > 0
                     THEN <<1>> ELSE <<0>>
    /\ pc' = "exited"
    /\ UNCHANGED <<providers, ip, now, ctxDone, loopIdx, wg, report, taskpc,
                   providerStart, ret, duration, calls, respondedAtDone,
                   crashed, consensus, cfg, ctxTimeout, httpTimeout, callResult, upstream, other>>

RunNext == RunBegin \/ Next \/ RunEnd

RunSpec == RunInit /\ [][RunNext]_vars

\* ------------------------------------ a second Lookup on the same Aggregator
\* The address the second call asks for.
OtherAddr == "1.1.1.1"

\* What a provider's Check returns to the second call: the Geolocation of
\* its address or an error.
OtherCheckResults ==
    {[geo |-> Geolocation(OtherAddr, "DE", 52, 13), err |-> NilError],
     [geo |-> ZeroGeolocation, err |-> ErrorNew("boom")]}

\* Aggregator.ProviderCount()
ProviderCount == Len(providers)

\* Aggregator.ProviderNames()
ProviderNames == [i \in 1..Len(providers) |-> Name(providers[i])]

\* Lines 29-38 of the second call: its own start, Report and WaitGroup.
OtherLookupBegin ==
    /\ ~crashed
    /\ other.pc = "call"
    /\ other' = [other EXCEPT !.report = [IP |-> OtherAddr, Timestamp |-> now,
                                         Results |-> [i \in Tasks |-> ZeroProviderResult],
                                         TotalDuration |-> 0],
                            !.wg = N,
                            !.loopIdx = 1,
                            !.pc = IF N = 0 THEN "wait" ELSE "spawn"]
    /\ UNCHANGED <<providers, ip, now, ctxDone, pc, loopIdx, wg, report, taskpc,
                   providerStart, ret, duration, calls, respondedAtDone, crashed,
                   consensus, cfg, exitCode, ctxTimeout, httpTimeout, stdout,
                   callResult, upstream>>

\* Lines 40-41, 60 of the second call.
OtherSpawn ==
    /\ ~crashed
    /\ other.pc = "spawn"
    /\ other.loopIdx <= N
    /\ other' = [other EXCEPT !.taskpc[other.loopIdx] = "ready",
                            !.loopIdx = @ + 1,
                            !.pc = IF other.loopIdx = N THEN "wait" ELSE "spawn"]
    /\ UNCHANGED <<providers, ip, now, ctxDone, pc, loopIdx, wg, report, taskpc,
                   providerStart, ret, duration, calls, respondedAtDone, crashed,
                   consensus, cfg, exitCode, ctxTimeout, httpTimeout, stdout,
                   callResult, upstream>>

\* Line 63 of the second call.
OtherWait ==
    /\ ~crashed
    /\ other.pc = "wait"
    /\ other.wg = 0
    /\ other' = [other EXCEPT !.pc = "stamp"]
    /\ UNCHANGED <<providers, ip, now, ctxDone, pc, loopIdx, wg, report, taskpc,
                   providerStart, ret, duration, calls, respondedAtDone, crashed,
                   consensus, cfg, exitCode, ctxTimeout, httpTimeout, stdout,
                   callResult, upstream>>

\* Lines 64-66 of the second call.
OtherReturn ==
    /\ ~crashed
    /\ other.pc = "stamp"
    /\ other' = [other EXCEPT !.report.TotalDuration = now - other.report.Timestamp,
                            !.pc = "returned"]
    /\ UNCHANGED <<providers, ip, now, ctxDone, pc, loopIdx, wg, report, taskpc,
                   providerStart, ret, duration, calls, respondedAtDone, crashed,
                   consensus, cfg, exitCode, ctxTimeout, httpTimeout, stdout,
                   callResult, upstream>>

\* Lines 44-45 in a goroutine of the second call.
OtherTaskStart(idx) ==
    /\ ~crashed
    /\ other.taskpc[idx] = "ready"
    /\ other' = [other EXCEPT !.taskpc[idx] = "checking"]
    /\ UNCHANGED <<providers, ip, now, ctxDone, pc, loopIdx, wg, report, taskpc,
                   providerStart, ret, duration, calls, respondedAtDone, crashed,
                   consensus, cfg, exitCode, ctxTimeout, httpTimeout, stdout,
                   callResult, upstream>>

\* Lines 45-46 in a goroutine of the second call.
OtherCheckReturn(idx) ==
    /\ ~crashed
    /\ other.taskpc[idx] = "checking"
    /\ \E r \in OtherCheckResults :
          other' = [other EXCEPT !.ret[idx] = r, !.taskpc[idx] = "checked"]
    /\ UNCHANGED <<providers, ip, now, ctxDone, pc, loopIdx, wg, report, taskpc,
                   providerStart, ret, duration, calls, respondedAtDone, crashed,
                   consensus, cfg, exitCode, ctxTimeout, httpTimeout, stdout,
                   callResult, upstream>>

\* Lines 48-59 in a goroutine of the second call: report is the variable of
\* that call, so the slot is one of its own array.
OtherWriteSlot(idx) ==
    /\ ~crashed
    /\ other.taskpc[idx] = "checked"
    /\ other' = [other EXCEPT !.report.Results[idx] =
                                MakeProviderResult(providers[idx], other.ret[idx].geo,
                                                   other.ret[idx].err, 0),
                            !.taskpc[idx] = "written"]
    /\ UNCHANGED <<providers, ip, now, ctxDone, pc, loopIdx, wg, report, taskpc,
                   providerStart, ret, duration, calls, respondedAtDone, crashed,
                   consensus, cfg, exitCode, ctxTimeout, httpTimeout, stdout,
                   callResult, upstream>>

\* Line 42 in a goroutine of the second call.
OtherTaskDone(idx) ==
    /\ ~crashed
    /\ other.taskpc[idx] = "written"
    /\ other' = [other EXCEPT !.wg = @ - 1, !.taskpc[idx] = "done"]
    /\ UNCHANGED <<providers, ip, now, ctxDone, pc, loopIdx, wg, report, taskpc,
                   providerStart, ret, duration, calls, respondedAtDone, crashed,
                   consensus, cfg, exitCode, ctxTimeout, httpTimeout, stdout,
                   callResult, upstream>>

\* p.Check panics in a goroutine of the second call.
OtherCheckPanic(idx) ==
    /\ ~crashed
    /\ other.taskpc[idx] = "checking"
    /\ other' = [other EXCEPT !.taskpc[idx] = "panicking"]
    /\ UNCHANGED <<providers, ip, now, ctxDone, pc, loopIdx, wg, report, taskpc,
                   providerStart, ret, duration, calls, respondedAtDone, crashed,
                   consensus, cfg, exitCode, ctxTimeout, httpTimeout, stdout,
                   callResult, upstream>>

\* Line 42 while panicking, in a goroutine of the second call.
OtherPanicUnwind(idx) ==
    /\ ~crashed
    /\ other.taskpc[idx] = "panicking"
    /\ other' = [other EXCEPT !.wg = @ - 1, !.taskpc[idx] = "dying"]
    /\ UNCHANGED <<providers, ip, now, ctxDone, pc, loopIdx, wg, report, taskpc,
                   providerStart, ret, duration, calls, respondedAtDone, crashed,
                   consensus, cfg, exitCode, ctxTimeout, httpTimeout, stdout,
                   callResult, upstream>>

\* The panic of a goroutine of the second call ends the process.
OtherCrash ==
    /\ ~crashed
    /\ \E i \in Tasks : other.taskpc[i] = "dying"
    /\ crashed' = TRUE
    /\ UNCHANGED <<providers, ip, now, ctxDone, pc, loopIdx, wg, report, taskpc,
                   providerStart, ret, duration, calls, respondedAtDone,
                   consensus, cfg, exitCode, ctxTimeout, httpTimeout, stdout,
                   callResult, upstream, other>>

OtherTaskNext(idx) ==
    \/ OtherTaskStart(idx)
    \/ OtherCheckReturn(idx)
    \/ OtherWriteSlot(idx)
    \/ OtherTaskDone(idx)
    \/ OtherCheckPanic(idx)
    \/ OtherPanicUnwind(idx)

OtherNext ==
    \/ OtherLookupBegin
    \/ OtherSpawn
    \/ OtherWait
    \/ OtherReturn
    \/ \E idx \in Tasks : OtherTaskNext(idx)
    \/ OtherCrash

\* The Aggregators on which Lookup is called twice.
PairProviders ==
    {<<[name |-> "mock", honoursCtx |-> FALSE]>>,
     <<[name |-> "mock", honoursCtx |-> FALSE], [name |-> "slow", honoursCtx |-> TRUE]>>}

\* Two callers of Lookup on one Aggregator; either may begin at any time,
\* before, during or after the other's call.
PairInit ==
    /\ providers \in PairProviders
    /\ ip \in LookupAddrs
    /\ now = 0
    /\ ctxDone = FALSE
    /\ pc = "call"
    /\ loopIdx = 1
    /\ wg = 0
    /\ report = NoReport
    /\ taskpc = [i \in Tasks |-> "idle"]
    /\ providerStart = [i \in Tasks |-> 0]
    /\ ret = [i \in Tasks |-> [geo |-> ZeroGeolocation, err |-> NilError]]
    /\ duration = [i \in Tasks |-> 0]
    /\ calls = [i \in Tasks |-> 0]
    /\ respondedAtDone = FALSE
    /\ crashed = FALSE
    /\ consensus = <<>>
    /\ cfg = [IPAddress |-> ip, Timeout |-> DefaultTimeout, Format |-> FormatText]
    /\ exitCode = <<>>
    /\ ctxTimeout = <<>>
    /\ httpTimeout = <<>>
    /\ stdout = <<>>
    /\ callResult = <<>>
    /\ upstream = NoExchange
    /\ other = [pc |-> "call", loopIdx |-> 1, wg |-> 0, report |-> NoReport,
                taskpc |-> [i \in Tasks |-> "idle"],
                ret |-> [i \in Tasks |-> [geo |-> ZeroGeolocation, err |-> NilError]]]

PairNext ==
    \/ LookupBegin
    \/ Spawn
    \/ Wait
    \/ Return
    \/ \E idx \in Tasks : TaskNext(idx)
    \/ Crash
    \/ OtherNext

PairSpec == PairInit /\ [][PairNext]_vars

\* ------------------------------------------------- Reports of any content
MaxResults == 3

\* Geolocations a Report may carry.
ReportGeos ==
    {ZeroGeolocation,
     [Geolocation("8.8.8.8", "US", 36, -120) EXCEPT !.ISP = "FR"],
     [Geolocation("8.8.8.8", "DE", 38, -124) EXCEPT !.ISP = "FR"],
     Geolocation("1.1.1.1", "US", 0, 0),
     [Geolocation("8.8.8.8", "FR", 0, 5) EXCEPT !.ISP = "DE"]}

\* Every combination of the fields of a ProviderResult, a Result together
\* with an Error and neither of them included.
AnyProviderResults ==
    [Provider : {"mock"},
     Result : {NilResult} \cup {<<g>> : g \in ReportGeos},
     Error : {"", "boom"},
     Duration : {0}]

AnyReports ==
    [IP : {"8.8.8.8", "2001:db8::1"},
     Timestamp : {0},
     Results : SeqsUpTo(AnyProviderResults, MaxResults),
     TotalDuration : {0}]

\* A caller holding an arbitrary Report.
ReportInit ==
    /\ report \in AnyReports
    /\ pc = "returned"
    /\ providers = <<>>
    /\ ip = report.IP
    /\ now = 0
    /\ ctxDone = FALSE
    /\ loopIdx = 1
    /\ wg = 0
    /\ taskpc = <<>>
    /\ providerStart = <<>>
    /\ ret = <<>>
    /\ duration = <<>>
    /\ calls = <<>>
    /\ respondedAtDone = FALSE
    /\ crashed = FALSE
    /\ consensus = <<>>
    /\ cfg = [IPAddress |-> ip, Timeout |-> DefaultTimeout, Format |-> FormatText]
    /\ exitCode = <<>>
    /\ ctxTimeout = <<>>
    /\ httpTimeout = <<>>
    /\ stdout = <<>>
    /\ callResult = <<>>
    /\ upstream = NoExchange
    /\ other = NoOther

ReportNext == CallConsensus

ReportSpec == ReportInit /\ [][ReportNext]_vars

\* A caller holding an arbitrary Report and calling its other methods.
MethodsNext == CallMethod

MethodsSpec == ReportInit /\ [][MethodsNext]_vars


\* The longest Report the caller of CallerSpec holds.
MaxCalledResults == 2

\* A caller holding a Report and calling any of its methods, in any order
\* and any number of times.
CallerInit == ReportInit /\ Len(report.Results) <= MaxCalledResults

CallerNext == CallConsensus \/ CallMethod

CallerSpec == CallerInit /\ [][CallerNext]_vars

\* Lookup under Go's scheduler: a runnable goroutine eventually runs, so
\* every step that waits on nothing but the scheduler is eventually taken.
\* When a Check returns is up to the provider and is left without fairness.
LiveSpec ==
    /\ Spec
    /\ WF_vars(LookupBegin)
    /\ WF_vars(Spawn)
    /\ WF_vars(Wait)
    /\ WF_vars(Return)
    /\ WF_vars(\E idx \in Tasks : TaskStart(idx))
    /\ WF_vars(\E idx \in Tasks : WriteSlot(idx))
    /\ WF_vars(\E idx \in Tasks : TaskDone(idx))
    /\ WF_vars(\E idx \in Tasks : PanicUnwind(idx))
    /\ WF_vars(Crash)

\* ------------------------------------------------------------------ claims
Returned == pc = "returned"

SlotWritten(i) == taskpc[i] \in {"written", "done"}

CheckFailed(i) == CheckReturned(i) /\ ~ret[i].err.isNil

Panicked(i) == taskpc[i] \in {"panicking", "dying"}

\* C1: when Lookup has returned, the Report has exactly N outcomes and the
\* outcome at index i carries the name of the provider registered at index
\* i; with no providers the outcome list is empty and SuccessCount() is 0.
C1_OrderedOutcomes ==
    Returned =>
        /\ Len(report.Results) = N
        /\ \A i \in Tasks : report.Results[i].Provider = Name(providers[i])
        /\ (N = 0 => report.Results = <<>> /\ SuccessCount(report) = 0)

\* C2: once a provider's task has failed (its Check returned an error,
\* panicked, or was cancelled), the process is still alive, so Lookup can
\* still return, and every other unfinished task can still take its next
\* step towards recording its outcome.
C2_FailureIsolated ==
    \A i \in Tasks :
        (CheckFailed(i) \/ Panicked(i)) =>
            /\ ~crashed
            /\ \A j \in Tasks \ {i} :
                   taskpc[j] \in {"ready", "checked", "written"} => ENABLED TaskNext(j)

\* C3: the outcome written for provider i has a nil Result and the error's
\* message if Check returned an error (whatever Geolocation came with it),
\* and an empty Error and exactly the returned Geolocation if it did not;
\* when Lookup has returned, this holds of every provider whose Check returned.
C3_OutcomeMatchesCheck ==
    /\ \A i \in Tasks :
          SlotWritten(i) =>
              /\ ~ret[i].err.isNil =>
                    /\ report.Results[i].Result = NilResult
                    /\ report.Results[i].Error = ret[i].err.msg
              /\ ret[i].err.isNil =>
                    /\ report.Results[i].Error = ""
                    /\ report.Results[i].Result = <<ret[i].geo>>
    /\ Returned => \A i \in Tasks : CheckReturned(i) => SlotWritten(i)

C3_Witness ==
    /\ Returned
    /\ \E i, j \in Tasks :
          /\ ~ret[i].err.isNil /\ ret[i].geo # ZeroGeolocation /\ SlotWritten(i)
          /\ ret[j].err.isNil /\ ret[j].geo # ZeroGeolocation /\ SlotWritten(j)

\* C4: every outcome a task has written, whatever its Check returned, has
\* exactly one of Result (present) and Error (non-empty); an empty
\* Geolocation returned without error is a Success.
C4_ExactlyOnePresent ==
    \A i \in Tasks :
        SlotWritten(i) =>
            /\ (report.Results[i].Result # NilResult) # (report.Results[i].Error # "")
            /\ (ret[i].err.isNil /\ IsEmpty(ret[i].geo)) => Success(report.Results[i])

\* C5: no provider's Check is entered more than once in a Lookup, each has
\* been entered exactly once when Lookup returns, and a provider whose Check
\* failed has exactly its own slot, holding an outcome that is not a Success.
C5_CheckedOnce ==
    /\ \A i \in Tasks : calls[i] <= 1
    /\ Returned =>
          /\ \A i \in Tasks : calls[i] = 1
          /\ Len(report.Results) = N
          /\ \A i \in Tasks : CheckFailed(i) => ~Success(report.Results[i])

C5_Witness ==
    /\ Returned
    /\ N = 2
    /\ providers[1] = providers[2]
    /\ CheckFailed(1)
    /\ Success(report.Results[2])

\* C6: when Lookup has returned, no provider task is still running and every
\* slot of Results has been written.
C6_ReturnsAfterAllWrites ==
    Returned => \A i \in Tasks : taskpc[i] = "done"

\* C7 as stated: if the context is done before any Check returned, every
\* outcome of the returned Report is a failure.
C7_AllFailAfterDeadline ==
    (Returned /\ ctxDone /\ ~respondedAtDone) =>
        /\ \A i \in Tasks : ~Success(report.Results[i])
        /\ SuccessCount(report) = 0
        /\ ErrorCount(report) = N

\* C7 amended: if the context is done before any Check returned, every
\* provider that honours the context ends as a failure, and if all of them
\* honour it SuccessCount() is 0 and ErrorCount() is N.
C7_CooperatingFailAfterDeadline ==
    (Returned /\ ctxDone /\ ~respondedAtDone) =>
        /\ \A i \in Tasks : providers[i].honoursCtx => ~Success(report.Results[i])
        /\ (\A i \in Tasks : providers[i].honoursCtx) =>
              /\ SuccessCount(report) = 0
              /\ ErrorCount(report) = N

C7_Witness ==
    /\ Returned /\ ctxDone /\ ~respondedAtDone
    /\ N = 2
    /\ \A i \in Tasks :
          /\ providers[i].honoursCtx
          /\ report.Results[i].Error = DeadlineExceeded.msg

AllChecksReturned == pc # "call" /\ \A i \in Tasks : CheckReturned(i)

\* C8: once every provider's Check has returned, Lookup eventually returns;
\* and Lookup never gets past wg.Wait() while a provider's Check is still to
\* start or still running, whether or not the context is done.
C8_TerminatesWithChecks ==
    /\ AllChecksReturned ~> Returned
    /\ [](pc \in {"stamp", "returned"} =>
            \A i \in Tasks : taskpc[i] \notin {"idle", "ready", "checking"})

C8_Witness ==
    /\ pc = "wait"
    /\ ctxDone
    /\ N = 2
    /\ InFlight(1)
    /\ taskpc[2] = "done"

\* C9: while the process is alive, the loop of Lookup can always start its
\* next task and a started task can always enter its Check, whatever state
\* the other tasks are in.
C9_StartsWithoutWaiting ==
    ~crashed =>
        /\ pc = "spawn" => ENABLED Spawn
        /\ \A i \in Tasks : taskpc[i] = "ready" => ENABLED TaskStart(i)

\* Every provider's Check in flight at once.
C9_Witness == N >= 2 /\ \A i \in Tasks : InFlight(i)

\* C10: for a Report without a successful outcome (no outcome at all, or
\* none that succeeded), what Consensus() returned is a Geolocation holding
\* the Report's address with every other field empty or zero.
C10_ConsensusOfNoSuccess ==
    (SuccessCount(report) = 0 /\ consensus # <<>>) =>
        consensus =
            <<[IP |-> report.IP, Country |-> "", CountryCode |-> "",
               Region |-> "", City |-> "", Latitude |-> <<0, 1>>,
               Longitude |-> <<0, 1>>, ISP |-> "", Org |-> "", ASN |-> ""]>>

C10_Witness ==
    /\ consensus # <<>>
    /\ SuccessCount(report) = 0
    /\ Len(report.Results) = 2
    /\ report.Results[1].Result # NilResult
    /\ report.Results[1].Result[1].Country = "US"
    /\ report.Results[1].Result[1].IP # report.IP
    /\ report.Results[2].Result = NilResult

\* The fields of a Geolocation that Consensus() settles by vote.
VotedFields == {"Country", "CountryCode", "City", "Region", "ISP", "Org", "ASN"}

\* The outcomes of r.Results that are a Success.
Successes(r) ==
    {i \in 1..Len(r.Results) :
        r.Results[i].Error = "" /\ r.Results[i].Result # NilResult}

\* The number of successful outcomes of r whose field f is exactly v.
VoteCount(r, f, v) ==
    Cardinality({i \in Successes(r) : r.Results[i].Result[1][f] = v})

\* The non-empty strings that at least one successful outcome of r has in f.
Voted(r, f) ==
    {v \in {VoteKeys[i] : i \in 1..Len(VoteKeys)} : VoteCount(r, f, v) > 0}

\* C11: in what Consensus() returned, every voted field holds a string no
\* other string outvotes, the smallest of the strings with that many votes;
\* a field nobody voted on is empty.
C11_HighestVoteSmallestString ==
    consensus # <<>> =>
        \A f \in VotedFields :
            LET w == consensus[1][f]
            IN  IF Voted(report, f) = {} THEN w = ""
                ELSE /\ w \in Voted(report, f)
                     /\ \A v \in Voted(report, f) :
                            \/ VoteCount(report, f, v) < VoteCount(report, f, w)
                            \/ /\ VoteCount(report, f, v) = VoteCount(report, f, w)
                               /\ (v = w \/ StrLess(w, v))

\* Three successful outcomes, three countries with one vote each; two of the
\* outcomes agree on the ISP.
C11_Witness ==
    /\ consensus # <<>>
    /\ Cardinality(Successes(report)) = 3
    /\ Voted(report, "Country") = {"DE", "FR", "US"}
    /\ report.Results[1].Result[1].Country = "US"
    /\ consensus[1].Country = "DE"
    /\ VoteCount(report, "ISP", "FR") = 2
    /\ consensus[1].ISP = "FR"
    /\ consensus[1].City = ""

\* C12: a call of Consensus() on a Report it was already called on returns
\* what the earlier call returned, whatever order the vote maps yield their
\* keys in this time.
C12_SameOnEveryCall ==
    [][(consensus # <<>> /\ consensus' # <<>> /\ report' = report)
          => consensus' = consensus]_vars

\* Consensus() was called on a Report whose two successful outcomes disagree
\* on the country and on the ISP, one vote each.
C12_Witness ==
    /\ consensus # <<>>
    /\ Cardinality(Successes(report)) = 2
    /\ Voted(report, "Country") = {"FR", "US"}
    /\ Voted(report, "ISP") = {"DE", "FR"}
    /\ consensus[1].Country = "FR"
    /\ consensus[1].ISP = "DE"

\* The Report r with its outcomes rearranged by the permutation p.
Permuted(r, p) ==
    [r EXCEPT !.Results = [i \in 1..Len(r.Results) |-> r.Results[p[i]]]]

\* C13: what Consensus() returned in the voted fields is what it returns
\* for the same outcomes in any other order.
C13_VotesIgnoreProviderOrder ==
    consensus # <<>> =>
        \A p \in Permutations(1..Len(report.Results)) :
            LET permuted == Consensus(Permuted(report, p), VoteKeys)
            IN  \A f \in VotedFields : permuted[f] = consensus[1][f]

\* Three successful outcomes with a different country each: every
\* rearrangement puts another country first.
C13_Witness ==
    /\ consensus # <<>>
    /\ Cardinality(Successes(report)) = 3
    /\ Voted(report, "Country") = {"DE", "FR", "US"}
    /\ report.Results[1].Result[1].Country = "FR"
    /\ report.Results[3].Result[1].Country = "DE"

\* The Report r without the outcomes that are not a Success.
WithoutFailures(r) ==
    [r EXCEPT !.Results =
        SelectSeq(r.Results, LAMBDA pr : pr.Error = "" /\ pr.Result # NilResult)]

\* C14: what Consensus() returned is what it returns for the Report with
\* every outcome that is not a Success taken out.
C14_FailuresContributeNothing ==
    consensus # <<>> =>
        consensus[1] = Consensus(WithoutFailures(report), VoteKeys)

\* One Success for "US" and two outcomes for "DE" that carry a Result with
\* coordinates together with an Error.
C14_Witness ==
    /\ consensus # <<>>
    /\ Len(report.Results) = 3
    /\ Successes(report) = {1}
    /\ report.Results[1].Result[1].Country = "US"
    /\ \A i \in {2, 3} :
          /\ report.Results[i].Error # ""
          /\ report.Results[i].Result # NilResult
          /\ report.Results[i].Result[1].Country = "DE"
          /\ HasLocation(report.Results[i].Result[1])
    /\ consensus[1].Country = "US"
    /\ consensus[1].Latitude = Float(36)

\* The successful outcomes of r with a non-zero latitude or longitude.
Located(r) ==
    {i \in Successes(r) :
        \/ r.Results[i].Result[1].Latitude # <<0, 1>>
        \/ r.Results[i].Result[1].Longitude # <<0, 1>>}

\* The sum of the coordinate f (a whole number of degrees in every Report
\* drawn here) over the outcomes S of r.
RECURSIVE DegreeSum(_, _, _)
DegreeSum(r, S, f) ==
    IF S = {} THEN 0
    ELSE LET i == CHOOSE j \in S : TRUE
         IN  r.Results[i].Result[1][f][1] + DegreeSum(r, S \ {i}, f)

\* C15: the latitude and longitude Consensus() returned, times the number
\* of successful outcomes that have a location, are the sums of those
\* outcomes' latitudes and longitudes; without such an outcome both are 0.
C15_CoordinatesAreMeans ==
    consensus # <<>> =>
        LET n == Cardinality(Located(report))
            lat == consensus[1].Latitude
            lon == consensus[1].Longitude
        IN  IF n = 0 THEN lat = <<0, 1>> /\ lon = <<0, 1>>
            ELSE /\ lat[2] > 0
                 /\ lon[2] > 0
                 /\ lat[1] * n = DegreeSum(report, Located(report), "Latitude") * lat[2]
                 /\ lon[1] * n = DegreeSum(report, Located(report), "Longitude") * lon[2]

\* Two successes with a location, one of them at latitude 0, and one
\* without: the means are 36/2 and (-120 + 5)/2.
C15_Witness ==
    /\ consensus # <<>>
    /\ Cardinality(Successes(report)) = 3
    /\ Cardinality(Located(report)) = 2
    /\ \E i \in Located(report) :
          /\ report.Results[i].Result[1].Latitude = <<0, 1>>
          /\ report.Results[i].Result[1].Longitude = <<5, 1>>
    /\ consensus[1].Latitude = <<18, 1>>
    /\ consensus[1].Longitude = <<-115, 2>>

\* The text is an IPv4 or IPv6 literal and nothing more: no zone, no '%'.
PlainLiteral(s) == TextSyntax(s).family \in {"v4", "v6"} /\ ~TextSyntax(s).percent

\* What a constructor returned for the text s is right: the valid Address
\* of a plain literal, without a zone, and an error with no Address for
\* every other text.
Constructed(s, r) ==
    IF PlainLiteral(s)
    THEN /\ r.err.isNil
         /\ r.addr.str = s
         /\ r.addr.is4 # r.addr.is6
         /\ r.addr.zone = ""
    ELSE ~r.err.isNil /\ r.addr = ZeroAddr

\* C16: once run has constructed the Address from the text it was given,
\* both constructors are right about that text, and an Address run holds
\* has no zone.
C16_NoZoneQualifiedAddress ==
    pc # "main" =>
        /\ Constructed(cfg.IPAddress, ParseIPAddress(cfg.IPAddress))
        /\ Constructed(cfg.IPAddress, ParseAddr(cfg.IPAddress))
        /\ ~TextSyntax(ip).percent

\* C17: when the text run was given is not a plain literal, run has
\* returned 1 with no Lookup begun and no provider's Check entered.
C17_InvalidAddressFailsFirst ==
    (pc # "main" /\ ~PlainLiteral(cfg.IPAddress)) =>
        /\ pc = "exited"
        /\ exitCode = <<1>>
        /\ report = NoReport
        /\ \A i \in Tasks : calls[i] = 0

\* run has returned after its call of Lookup.
ExitedAfterLookup == pc = "exited" /\ ctxTimeout # <<>>

\* C18 as stated: when run has returned after its Lookup, the Report is on
\* standard output, and the exit code is 1 exactly if the Report has an
\* outcome and none is a Success.
C18_ExitCodeIffAllFailed ==
    ExitedAfterLookup =>
        /\ stdout # <<>>
        /\ exitCode \in {<<0>>, <<1>>}
        /\ exitCode = <<1>> <=>
              (Len(report.Results) > 0 /\ Successes(report) = {})

\* C18, amended: when run has returned after its Lookup, either writing the
\* Report failed and the exit code is 1, or the Report Lookup returned is
\* on standard output in the format asked for and the exit code is 1
\* exactly if the Report has an outcome and none is a Success.
C18_ExitCodeAfterWrite ==
    ExitedAfterLookup =>
        IF stdout = <<>> THEN exitCode = <<1>>
        ELSE /\ stdout = <<[format |-> cfg.Format, report |-> report]>>
             /\ exitCode \in {<<0>>, <<1>>}
             /\ exitCode = <<1>> <=>
                   (Len(report.Results) > 0 /\ Successes(report) = {})

\* Three providers, all failed: the Report is written and run returns 1.
C18_Witness ==
    /\ ExitedAfterLookup
    /\ N = 3
    /\ Successes(report) = {}
    /\ \A i \in Tasks : report.Results[i].Error # ""
    /\ stdout # <<>>
    /\ stdout[1].report = report
    /\ exitCode = <<1>>

\* C19: the timeout run gave the context and the one it gave the HTTP
\* client are the timeout of the Config, not negative, and the context is
\* not done when run calls Lookup.
C19_TimeoutsAreExact ==
    ctxTimeout # <<>> =>
        /\ ctxTimeout = <<cfg.Timeout>>
        /\ httpTimeout = <<cfg.Timeout>>
        /\ ~IsNegative(ctxTimeout[1])
        /\ pc = "call" => ~ctxDone

\* C20: of the Report Lookup is filling or has returned, SuccessCount() and
\* ErrorCount() are not negative and add up to the number of outcomes,
\* which is the number of providers.
C20_CountsAddUp ==
    pc # "call" =>
        /\ SuccessCount(report) >= 0
        /\ ErrorCount(report) >= 0
        /\ SuccessCount(report) + ErrorCount(report) = Len(report.Results)
        /\ SuccessCount(report) + ErrorCount(report) = N

\* A returned Report of one Success and one outcome with neither a Result
\* nor an error message.
C20_Witness ==
    /\ Returned
    /\ N = 2
    /\ Successes(report) = {1}
    /\ report.Results[2].Result = NilResult
    /\ report.Results[2].Error = ""
    /\ SuccessCount(report) = 1
    /\ ErrorCount(report) = 1

\* The caller's last call was of the method m.
Called(m) == callResult # <<>> /\ callResult[1].method = m

\* The k-th smallest of the set S of indices.
Nth(S, k) == CHOOSE i \in S : Cardinality({j \in S : j < i}) = k - 1

\* C21: what SuccessfulResults() returned has one element for each outcome
\* that is a Success, as many as SuccessCount() counts, and its k-th
\* element is the k-th such outcome of Results.
C21_SuccessesInOrder ==
    Called("SuccessfulResults") =>
        LET got == callResult[1].value
        IN  /\ Len(got) = Cardinality(Successes(report))
            /\ Len(got) = SuccessCount(report)
            /\ \A k \in 1..Len(got) :
                  got[k] = report.Results[Nth(Successes(report), k)]

\* Two different successes with an outcome between them that carries a
\* Result and an Error.
C21_Witness ==
    /\ Called("SuccessfulResults")
    /\ Len(report.Results) = 3
    /\ Successes(report) = {1, 3}
    /\ report.Results[2].Result # NilResult
    /\ report.Results[1] # report.Results[3]
    /\ callResult[1].value = <<report.Results[1], report.Results[3]>>

\* C22: what Success() returned for an outcome is TRUE for a Result without
\* an Error, and FALSE for an Error without a Result, for neither and for
\* both.
C22_SuccessIffResultAndNoError ==
    Called("Success") =>
        LET pr == report.Results[callResult[1].arg]
        IN  callResult[1].value =
                CASE pr.Result # <<>> /\ pr.Error = "" -> TRUE
                  [] pr.Result # <<>> /\ pr.Error # "" -> FALSE
                  [] pr.Result = <<>> /\ pr.Error # "" -> FALSE
                  [] pr.Result = <<>> /\ pr.Error = "" -> FALSE

\* Success() was called on an outcome with both a Result and an Error.
C22_Witness ==
    /\ Called("Success")
    /\ report.Results[callResult[1].arg].Result # <<>>
    /\ report.Results[callResult[1].arg].Error # ""
    /\ callResult[1].value = FALSE

\* The decoded body b of the provider p's service reports an error of the
\* API itself.
ApiError(p, b) ==
    CASE Name(p) = "ip-api" -> b.Status # "success"
      [] Name(p) = "ipinfo" -> b.Error # <<>>
      [] Name(p) = "ipwhois" -> ~b.Success

\* The exchange x with the provider p's service failed: in the transport,
\* by its status code, by a body that does not decode, or by an API error.
ExchangeFailed(p, x) ==
    \/ x.transport # "ok"
    \/ x.status # 200
    \/ x.body = <<>>
    \/ ApiError(p, x.body[1])

\* C23: a concrete provider's Check that has returned after a failed
\* exchange returned an error with the zero Geolocation, and never an error
\* with anything else; after an exchange that succeeded and was not cut off
\* by the context it returned no error and a Geolocation for the address
\* with the fields the body had, ipinfo's coordinates being zero when "loc"
\* is absent or does not parse.
C23_FailureOrBestEffort ==
    \A i \in Tasks :
        CheckReturned(i) /\ Name(providers[i]) \in {"ip-api", "ipinfo", "ipwhois"} =>
            LET x == upstream.x
                r == ret[i]
            IN  /\ ~r.err.isNil => r.geo = ZeroGeolocation
                /\ ExchangeFailed(providers[i], x) => ~r.err.isNil
                /\ ~ExchangeFailed(providers[i], x) /\ ~ctxDone =>
                      /\ r.err.isNil
                      /\ r.geo.IP = ip
                      /\ r.geo.City = x.body[1].City
                      /\ Name(providers[i]) = "ipinfo" =>
                            /\ r.geo.CountryCode = x.body[1].Country
                            /\ x.body[1].Loc \notin {"37,-122"} =>
                                  /\ r.geo.Latitude = Float(0)
                                  /\ r.geo.Longitude = Float(0)

\* ipinfo answered 200 with a "loc" whose longitude is no number, and Check
\* returned the city without coordinates and no error.
C23_Witness ==
    /\ Len(providers) = 1
    /\ Name(providers[1]) = "ipinfo"
    /\ CheckReturned(1)
    /\ ~ExchangeFailed(providers[1], upstream.x)
    /\ upstream.x.body[1].Loc = "37,west"
    /\ ret[1].err.isNil
    /\ ret[1].geo.City = "Mountain View"
    /\ ~HasLocation(ret[1].geo)

\* C24: a concrete provider's Check that has returned although no answer
\* had arrived before ctx.Done() closed returned an error and no
\* Geolocation; and while Check is in flight with ctx.Done() closed it can
\* return, whether or not the answer has arrived.
C24_CancelledCheckFails ==
    \A i \in Tasks :
        Name(providers[i]) \in {"ip-api", "ipinfo", "ipwhois"} =>
            /\ CheckReturned(i) /\ upstream.arrived # "intime" =>
                  /\ ~ret[i].err.isNil
                  /\ ret[i].geo = ZeroGeolocation
            /\ InFlight(i) /\ ctxDone => ENABLED ConcreteCheckReturn(i)

\* The deadline passed during an exchange that would have succeeded; Check
\* returned an error and the answer has still not arrived.
C24_Witness ==
    /\ Len(providers) = 1
    /\ CheckReturned(1)
    /\ ctxDone
    /\ upstream.arrived = "no"
    /\ ~ExchangeFailed(providers[1], upstream.x)
    /\ ~ret[1].err.isNil

\* A step of the task i alone that fills the slot i, empty until then.
WritesOwnSlot(i) ==
    /\ report.Results[i] = ZeroProviderResult
    /\ taskpc[i] = "checked"
    /\ taskpc'[i] = "written"
    /\ \A j \in Tasks \ {i} :
          /\ taskpc'[j] = taskpc[j]
          /\ report'.Results[j] = report.Results[j]

\* C25: once Lookup has made the result array, its length stays, a slot i
\* changes only in a step of the task i that fills the empty slot and
\* leaves the others alone, and never after Lookup has returned; and when
\* Lookup has returned every slot has been filled.
C25_SlotWrittenOnceByOwner ==
    /\ [][pc # "call" =>
             /\ Len(report'.Results) = Len(report.Results)
             /\ \A i \in Tasks :
                   report'.Results[i] # report.Results[i] =>
                       ~Returned /\ WritesOwnSlot(i)]_vars
    /\ [](Returned => \A i \in Tasks : report.Results[i] # ZeroProviderResult)

\* The outcome in the slot i is the one the task's Check returned.
SlotHoldsReturn(i) ==
    /\ report.Results[i].Provider = Name(providers[i])
    /\ report.Results[i].Error = ret[i].err.msg
    /\ report.Results[i].Result = IF ret[i].err.isNil THEN <<ret[i].geo>> ELSE NilResult

\* C26: in every step, the expiry of the deadline included, what a Check
\* that has returned gave stays as it is and a written slot keeps its
\* outcome; a task gets the cancellation failure only as its Check, in
\* flight with ctx.Done() closed, returns; and every written slot, in the
\* returned Report too, holds what its task's Check returned.
C26_ReturnedOutcomesSurviveExpiry ==
    /\ [][\A i \in Tasks :
             /\ CheckReturned(i) => ret'[i] = ret[i]
             /\ SlotWritten(i) => report'.Results[i] = report.Results[i]
             /\ ret'[i] # ret[i] /\ ret'[i].err = DeadlineExceeded =>
                   InFlight(i) /\ ctxDone]_vars
    /\ [](\A i \in Tasks : SlotWritten(i) => SlotHoldsReturn(i))

\* Lookup has returned after the deadline passed with one Check already
\* back: its success is in the Report beside the other's cancellation.
C26_Witness ==
    /\ Returned
    /\ N = 2
    /\ ctxDone
    /\ respondedAtDone
    /\ \E i, j \in Tasks :
          /\ Success(report.Results[i])
          /\ report.Results[j].Error = DeadlineExceeded.msg
          /\ ret[j].err = DeadlineExceeded

\* C27: no call of a method changes the Report the caller holds (address,
\* outcome sequence, every outcome's fields and durations), two calls of
\* Consensus() return the same, and whatever was called before,
\* SuccessCount(), ErrorCount() and SuccessfulResults() return the counts
\* and the outcomes of the successes of that Report.
C27_ReadOnlyAfterReturn ==
    /\ [][Returned =>
             /\ report' = report
             /\ consensus # <<>> /\ consensus' # <<>> => consensus' = consensus]_vars
    /\ [](Called("SuccessCount") =>
             callResult[1].value = Cardinality(Successes(report)))
    /\ [](Called("ErrorCount") =>
             callResult[1].value = Len(report.Results) - Cardinality(Successes(report)))
    /\ [](Called("SuccessfulResults") =>
             /\ Len(callResult[1].value) = Cardinality(Successes(report))
             /\ \A k \in 1..Len(callResult[1].value) :
                   \E i \in Successes(report) : callResult[1].value[k] = report.Results[i])

\* Consensus() and then SuccessfulResults() were called on a Report whose
\* first outcome is a failure and whose second is a success; both outcomes
\* are still in their places.
C27_Witness ==
    /\ Returned
    /\ consensus # <<>>
    /\ Called("SuccessfulResults")
    /\ Len(report.Results) = 2
    /\ Successes(report) = {2}
    /\ report.Results[1].Error # ""
    /\ callResult[1].value = <<report.Results[2]>>

\* C28: when Lookup has returned, on the clock that never steps back, the
\* Report's Timestamp is not after any task's start, the instant of the
\* TotalDuration stamp is not before the end of any task's Check, and
\* TotalDuration is at least every outcome's Duration and at least 0.
C28_TotalDurationCoversTasks ==
    Returned =>
        /\ report.TotalDuration >= 0
        /\ \A i \in Tasks :
              /\ report.Timestamp <= providerStart[i]
              /\ CheckReturned(i) =>
                    providerStart[i] + duration[i]
                        <= report.Timestamp + report.TotalDuration
              /\ report.TotalDuration >= report.Results[i].Duration

\* Lookup returned after one tick: one task took the whole of it, another
\* started after the tick and took no time.
C28_Witness ==
    /\ Returned
    /\ N = 2
    /\ report.TotalDuration > 0
    /\ \E i, j \in Tasks :
          /\ report.Results[i].Duration = report.TotalDuration
          /\ report.Results[j].Duration < report.TotalDuration
          /\ report.Timestamp < providerStart[j]
          /\ SlotWritten(j)

\* C29: in what Consensus() returned, IP is the Report's address whatever
\* the outcomes carry, and every voted field is empty or the value that
\* field has in some successful outcome, and empty only when the field is
\* empty in every successful outcome.
C29_ConsensusFromSuccesses ==
    consensus # <<>> =>
        LET c == consensus[1]
        IN  /\ c.IP = report.IP
            /\ \A f \in VotedFields :
                  /\ c[f] # "" =>
                        \E i \in Successes(report) : report.Results[i].Result[1][f] = c[f]
                  /\ c[f] = "" =>
                        \A i \in Successes(report) : report.Results[i].Result[1][f] = ""

\* Consensus() was called on a Report for 2001:db8::1 whose two successes,
\* one of them carrying 1.1.1.1, disagree on the country and name no Org.
C29_Witness ==
    /\ consensus # <<>>
    /\ report.IP = "2001:db8::1"
    /\ consensus[1].IP = "2001:db8::1"
    /\ Cardinality(Successes(report)) = 2
    /\ Cardinality(Voted(report, "Country")) = 2
    /\ \E i \in Successes(report) : report.Results[i].Result[1].IP = "1.1.1.1"
    /\ consensus[1].Country # ""
    /\ consensus[1].Org = ""

\* The Report r has one outcome for each provider, in registration order.
OneOutcomeEach(r) ==
    /\ Len(r.Results) = ProviderCount
    /\ \A i \in Tasks : r.Results[i].Provider = ProviderNames[i]

\* Every slot of r is empty or holds what the Check of the task i of the
\* call with the returns rets gave.
OwnOutcomesOnly(r, rets) ==
    \A i \in 1..Len(r.Results) :
        \/ r.Results[i] = ZeroProviderResult
        \/ /\ r.Results[i].Error = rets[i].err.msg
           /\ r.Results[i].Result = IF rets[i].err.isNil THEN <<rets[i].geo>> ELSE NilResult

\* C30: no step of either call changes the providers of the Aggregator, so
\* ProviderCount() and ProviderNames() stay what they were; a step changes
\* the Report of one call only; every slot of a Report holds nothing but
\* what a task of its own call got; and each Report, once returned, has one
\* outcome for each provider in registration order.
C30_LookupsDoNotInterfere ==
    /\ [][/\ providers' = providers
          /\ ProviderCount' = ProviderCount
          /\ ProviderNames' = ProviderNames
          /\ report' = report \/ other'.report = other.report]_vars
    /\ [](OwnOutcomesOnly(report, ret) /\ OwnOutcomesOnly(other.report, other.ret))
    /\ [](Returned => OneOutcomeEach(report))
    /\ [](other.pc = "returned" => OneOutcomeEach(other.report))

=============================================================================
